---- MODULE Spec2Model ----
(***************************************************************************)
(* LiquidGlassCore (src/src/core.ts): the displacement-map recomputation   *)
(* (performShaderUpdate), its throttled and forced schedulers              *)
(* (updateShader, forceUpdateShader), the pointer handlers and the element *)
(* lifecycle (init, setSize, updateConfig, updateEffects, destroy).        *)
(*                                                                         *)
(* Time is counted in ticks of 1/TicksPerMs millisecond, because           *)
(* performance.now() is fractional while the delay handed to setTimeout is *)
(* truncated to whole milliseconds.  The clock itself is unbounded; the    *)
(* state keeps the differences the code computes from it, each saturated   *)
(* where the code no longer tells values apart:                            *)
(*   elapsed        performance.now() - this.lastShaderUpdate, at most the *)
(*                  throttle interval (updateShader only asks whether it   *)
(*                  is below it, and uses its value only when it is);      *)
(*   timers[i].left the time until timer i is due, at least 0.             *)
(*                                                                         *)
(* Numbers are fixed point with Q units per 1.0.  Sizes are powers of two  *)
(* and pointer coordinates multiples of 1/4, so that the arithmetic of the *)
(* rational warp functions is exact in IEEE doubles as well; the default   *)
(* warp function is computed in fixed point (floor rounding).              *)
(***************************************************************************)
EXTENDS Integers, Sequences, FiniteSets, TLC

\* ---------------------------------------------------------------- bounds
TicksPerMs == 2

\* hist.calls counts the throttled calls up to this number.
MaxCalls == 2

\* drag.open counts the open onDragStart calls up to this number.
MaxOpen == 2

\* drag.moves counts the drag moves up to this number, and no more are
\* made.
MaxMoves == 2

\* The compute-frame messages the page of the WASM demo posts.
MaxFrames == 2

\* dom.resize counts the window's resize listeners up to this number.
MaxListeners == 2

\* dom.orphans counts the replaced containers left in the document up to
\* this number.
MaxOrphans == 2

\* window.innerWidth and window.innerHeight when the page loads, in pixels.
innerWidth == 24

innerHeight == 23

\* ------------------------------------------------------ program constants
shaderUpdateThrottle == 16

Q == 10000

ThrottleTicks == shaderUpdateThrottle * TicksPerMs

\* How far the clock moves between two events (in ticks): half an interval,
\* or one tick less, which is not a whole number of milliseconds.
TickSteps == {ThrottleTicks \div 2 - 1, ThrottleTicks \div 2}

\* ------------------------------------------------------------- arithmetic
Abs(a) == IF a < 0 THEN 0 - a ELSE a

Max2(a, b) == IF a >= b THEN a ELSE b

Min2(a, b) == IF a <= b THEN a ELSE b

\* Fixed-point product and quotient of two fixed-point numbers.
Mul(a, b) == (a * b) \div Q

DivQ(a, b) == (a * Q) \div b

\* The largest r in lo .. hi with r * r <= n, by bisection (mid is the one
\* element of the set it is drawn from).
RECURSIVE SqrtSearch(_, _, _)
SqrtSearch(n, lo, hi) ==
  IF lo >= hi THEN lo
  ELSE CHOOSE r \in {IF mid * mid <= n THEN SqrtSearch(n, mid, hi)
                                        ELSE SqrtSearch(n, lo, mid - 1) :
                       mid \in {(lo + hi + 1) \div 2}} : TRUE

\* Math.sqrt of a fixed-point number: floor(sqrt(a / Q)) in fixed point.
Sqrt(a) == SqrtSearch(a * Q, 0, 3 * Q)

\* core.ts smoothStep(a, b, t) for a # b.
smoothStep(a, b, t) ==
  LET c == Max2(0, Min2(Q, DivQ(t - a, b - a)))
  IN Mul(Mul(c, c), 3 * Q - 2 * c)

length(x, y) == Sqrt(Mul(x, x) + Mul(y, y))

roundedRectSDF(x, y, width, height, radius) ==
  LET qx == Abs(x) - width + radius
      qy == Abs(y) - height + radius
  IN Min2(Max2(qx, qy), 0) + length(Max2(qx, 0), Max2(qy, 0)) - radius

texture(x, y) == [x |-> x, y |-> y]

\* ---------------------------------------------------------- warp functions
\* A fragment returns the sampled position and whether it read a field of
\* the pointer state it was handed (the Proxy of performShaderUpdate sets
\* mouseUsed on any property read).
FragmentNames == {"default", "identity", "mouseShift", "mouseEdge"}

\* DEFAULT_CONFIG.fragment: takes uv only.
defaultFragment(uv) ==
  LET ix == uv.x - Q \div 2
      iy == uv.y - Q \div 2
      distanceToEdge == roundedRectSDF(ix, iy, (3 * Q) \div 10, (2 * Q) \div 10, (6 * Q) \div 10)
      displacement == smoothStep((8 * Q) \div 10, 0, distanceToEdge - (15 * Q) \div 100)
      scaled == smoothStep(0, Q, displacement)
  IN texture(Mul(ix, scaled) + Q \div 2, Mul(iy, scaled) + Q \div 2)

\* fragment(uv, m): the configured warp function applied to one sample.
\*   identity   (uv) => texture(uv.x, uv.y)
\*   mouseShift (uv, mouse) => texture(uv.x + mouse.x - 0.5, uv.y + mouse.y - 0.5)
\*   mouseEdge  (uv, mouse) => uv.x >= 0.5 ? texture(uv.x + mouse.x - 0.5, uv.y) : texture(uv.x, uv.y)
fragment(name, uv, m) ==
  CASE name = "default" ->
         [pos |-> defaultFragment(uv), used |-> FALSE]
    [] name = "identity" ->
         [pos |-> texture(uv.x, uv.y), used |-> FALSE]
    [] name = "mouseShift" ->
         [pos |-> texture(uv.x + m.x - Q \div 2, uv.y + m.y - Q \div 2), used |-> TRUE]
    [] OTHER ->
         IF uv.x >= Q \div 2
         THEN [pos |-> texture(uv.x + m.x - Q \div 2, uv.y), used |-> TRUE]
         ELSE [pos |-> texture(uv.x, uv.y), used |-> FALSE]

\* Warp functions that move every sample Factor times as far as another
\* one does: (uv, mouse) => uv + Factor * (f(uv, mouse) - uv).
Factor == 3

Amplified ==
  [defaultTimes |-> "default", mouseShiftTimes |-> "mouseShift",
   mouseEdgeTimes |-> "mouseEdge"]

amplified(name, uv, m) ==
  LET res == fragment(Amplified[name], uv, m)
  IN [pos |-> texture(uv.x + Factor * (res.pos.x - uv.x),
                      uv.y + Factor * (res.pos.y - uv.y)),
      used |-> res.used]

\* this.config.fragment(uv, mouseProxy)
warp(name, uv, m) ==
  IF name \in DOMAIN Amplified THEN amplified(name, uv, m) ELSE fragment(name, uv, m)

\* ------------------------------------------------- typed-array conversions
\* The value of  raw / maxScale + 0.5  times 255 as an IEEE number: a ratio
\* n/d with d > 0, NaN (0/0) or an infinity.
NaN == [k |-> "NaN", n |-> 0, d |-> 1]

Infinity(sign) == [k |-> "Inf", n |-> sign, d |-> 1]

Finite(n, d) == [k |-> "fin", n |-> n, d |-> d]

\* a / b for a fixed-point a and a ratio b >= 0 of fixed-point numbers (a JS
\* division never throws).
FDiv(a, b) ==
  IF b.n = 0
  THEN (IF a = 0 THEN NaN ELSE Infinity(IF a > 0 THEN 1 ELSE 0 - 1))
  ELSE Finite(a * b.d, b.n)

FAddHalf(f) == IF f.k = "fin" THEN Finite(2 * f.n + f.d, 2 * f.d) ELSE f

FTimes255(f) == IF f.k = "fin" THEN Finite(255 * f.n, f.d) ELSE f

\* x / y for two numbers as an IEEE number.
NumDiv(x, y) ==
  IF y = 0 THEN (IF x = 0 THEN NaN ELSE Infinity(IF x > 0 THEN 1 ELSE 0 - 1))
  ELSE IF y > 0 THEN Finite(x, y)
  ELSE Finite(0 - x, 0 - y)

\* Math.max(0, Math.min(1, f)): Math.min and Math.max return NaN for NaN.
Clamp01(f) ==
  CASE f.k = "NaN" -> NaN
    [] f.k = "Inf" -> (IF f.n > 0 THEN Finite(1, 1) ELSE Finite(0, 1))
    [] OTHER -> IF f.n <= 0 THEN Finite(0, 1)
                ELSE IF f.n >= f.d THEN Finite(1, 1)
                ELSE f

\* LiquidGlassCore.smoothStep(a, b, t) for any a and b, as an IEEE number:
\* t = Math.max(0, Math.min(1, (t - a) / (b - a))); t * t * (3 - 2 * t).
smoothStepValue(a, b, t) ==
  LET c == Clamp01(NumDiv(t - a, b - a))
  IN IF c.k = "NaN" THEN NaN
     ELSE Finite(c.n * c.n * (3 * c.d - 2 * c.n), c.d * c.d * c.d)

\* Round n/d (d > 0) to the nearest integer, ties to the even one.
RoundHalfEven(n, d) ==
  LET q == n \div d
      r == n - q * d
  IN IF 2 * r < d THEN q
     ELSE IF 2 * r > d THEN q + 1
     ELSE IF q % 2 = 0 THEN q ELSE q + 1

\* The store of a Uint8Array instead: the rounded value modulo 256.
ToUint8Clamp_wraps(f) ==
  CASE f.k = "NaN" -> 0
    [] f.k = "Inf" -> 0
    [] OTHER -> RoundHalfEven(f.n, f.d) % 256

\* Storing a number into a Uint8ClampedArray (ImageData.data): NaN becomes
\* 0, the rest is clamped to [0, 255] and rounded half to even.
ToUint8Clamp(f) ==
  CASE f.k = "NaN" -> 0
    [] f.k = "Inf" -> (IF f.n > 0 THEN 255 ELSE 0)
    [] OTHER -> Max2(0, Min2(255, RoundHalfEven(f.n, f.d)))

\* ------------------------------------------------------------------ state
VARIABLES
  elapsed,              \* performance.now() - this.lastShaderUpdate, in ticks
  timers,               \* outstanding setTimeout callbacks of updateShader
  config,               \* this.config
  container,            \* this.container: "null" or "live"
  svg,                  \* this.svg: "null" or "live"
  canvas,               \* this.canvas: [ref, width, height]
  context,              \* this.context: "null", "live" or "stale"
  feImage,              \* this.feImage: "null", "live" or "stale"
  feDisplacementMap,    \* this.feDisplacementMap: "null", "live" or "stale"
  mouse,                \* this.mouse
  mouseUsed,            \* this.mouseUsed
  pendingShaderUpdate,  \* this.pendingShaderUpdate
  imageData,            \* this.imageData
  rawValues,            \* this.rawValues
  href,                 \* the href attribute of the element this.feImage names
  scale,                \* the scale attribute of the feDisplacementMap element
  place,                \* style.left and style.top of the container
  drag,                 \* the LiquidGlassDraggable made for the instance
  dom,                  \* the window and the document
  hist,                 \* history of the run, read by the properties only
  probe,                \* the latest call of a static utility function
  wasm                  \* the page and the worker of the WASM demo

vars == <<elapsed, timers, config, container, svg, canvas, context, feImage,
          feDisplacementMap, mouse, mouseUsed, pendingShaderUpdate, imageData, rawValues, href, scale, place, drag, dom, hist,
          probe, wasm>>

\* The instance and its environment as one record, so that a method is a
\* function from the state before the call to the state after it.
State ==
  [elapsed |-> elapsed, timers |-> timers, config |-> config, container |-> container,
   svg |-> svg, canvas |-> canvas, context |-> context, feImage |-> feImage,
   feDisplacementMap |-> feDisplacementMap, mouse |-> mouse,
   mouseUsed |-> mouseUsed,
   pendingShaderUpdate |-> pendingShaderUpdate, imageData |-> imageData,
   rawValues |-> rawValues, href |-> href, scale |-> scale, place |-> place,
   drag |-> drag, dom |-> dom, hist |-> hist]

Becomes(s) ==
  \E t \in {s} :
    /\ elapsed' = t.elapsed
    /\ timers' = t.timers
    /\ config' = t.config
    /\ container' = t.container
    /\ svg' = t.svg
    /\ canvas' = t.canvas
    /\ context' = t.context
    /\ feImage' = t.feImage
    /\ feDisplacementMap' = t.feDisplacementMap
    /\ mouse' = t.mouse
    /\ mouseUsed' = t.mouseUsed
    /\ pendingShaderUpdate' = t.pendingShaderUpdate
    /\ imageData' = t.imageData
    /\ rawValues' = t.rawValues
    /\ href' = t.href
    /\ scale' = t.scale
    /\ place' = t.place
    /\ drag' = t.drag
    /\ dom' = t.dom
    /\ hist' = t.hist
    /\ probe' = probe
    /\ wasm' = wasm

NoCanvas == [ref |-> "null", width |-> 0, height |-> 0]

NoImageData == [ref |-> "null", width |-> 0, height |-> 0, data |-> <<>>]

NoRawValues == [ref |-> "null", values |-> <<>>]

\* An feImage element that was never given an image, a feDisplacementMap
\* element that was never given a scale.
NoHref == [set |-> FALSE, width |-> 0, height |-> 0, data |-> <<>>]

NoScale == [set |-> FALSE, num |-> 0, den |-> 1]

\* The inputs a recomputation reads.
Inputs(s) == [mouse |-> s.mouse, config |-> s.config]

\* The history of the run, read by the properties only.
\*   op       the operation that made the latest step
\*   used0    this.mouseUsed when it began
\*   asked    whether it called updateShader
\*   runs     the recomputations it performed
\*   run      the latest of those: the path it was reached through, the time
\*            since the recomputation before it began (see since), the
\*            throttled calls it answers, and whether its feImage belonged
\*            to a filter destroy() had removed
\*   inputs   the pointer state and configuration that recomputation read
\*   since    the time since the latest recomputation began, at most the
\*            throttle interval; -1 before the first one
\*   calls    the updateShader calls throttled since the latest
\*            recomputation, counted up to MaxCalls
\*   torn     destroy() ran since the latest recomputation
\*   threw    the operation ended with an exception
\*   pending0 this.pendingShaderUpdate when it began
\*   newConfig   the argument of updateConfig, when that is the operation
\*   pointer  a pointer is over the surface: the latest pointer event was a
\*            mousemove, not a mouseleave
\*   overtaken   a forced recomputation ran while the retry now outstanding
\*            was pending
\*   overtaken0  overtaken when the operation began
NoRun == [path |-> "none", gap |-> 0 - 1, coalesced |-> 0, stale |-> FALSE]

NoInputs == [mouse |-> [x |-> 0, y |-> 0], config |-> [size |-> [width |-> 0, height |-> 0]]]

NoHist == [op |-> "new", used0 |-> FALSE, asked |-> FALSE, runs |-> 0,
           run |-> NoRun, inputs |-> NoInputs,
           since |-> 0 - 1, calls |-> 0, torn |-> FALSE, threw |-> FALSE,
           pending0 |-> FALSE, newConfig |-> <<>>, pointer |-> FALSE, overtaken |-> FALSE, overtaken0 |-> FALSE]

\* No LiquidGlassDraggable was made yet.
\*   container   this.container
\*   listening   setupEventListeners added its listeners
\*   attached    the element its listeners were added to is in the document
\*   same        that element is the container the target names now
\*   isDragging, dragStart, config   the fields of that name
\*   open        onDragStart calls not yet followed by an onDragEnd, counted
\*               up to MaxOpen
\*   fired       the callbacks the latest event invoked, in order
\*   moved       the latest event called target.setPosition
\*   wanted      newPosition of the latest updateDrag
\*   passed      the position it passed to onDrag
\*   updated     target.updateConfig ran since it was made
\*   down        a mouse button went down on the container the target names
\*               now and has not come up
\*   moves       the updateDrag calls that moved the target, counted up to
\*               MaxMoves
\*   before      open, destroyed and the target's position when the latest
\*               step began
\*   destroyed   destroy() was called
NoDragStart == [set |-> FALSE, x |-> 0, y |-> 0, initialX |-> 0, initialY |-> 0]

NoDraggable ==
  [made |-> FALSE, container |-> "null", attached |-> FALSE, same |-> FALSE,
   isDragging |-> FALSE,
   listening |-> FALSE,
   dragStart |-> NoDragStart, config |-> [constrainToViewport |-> TRUE],
   open |-> 0, fired |-> <<>>, moved |-> FALSE, destroyed |-> FALSE,
   wanted |-> [x |-> 0, y |-> 0], passed |-> [x |-> 0, y |-> 0], moves |-> 0,
   updated |-> FALSE, down |-> FALSE,
   before |-> [open |-> 0, destroyed |-> FALSE, position |-> [x |-> 0, y |-> 0]]]

\* The window and the document when the page has loaded.
\*   innerWidth, innerHeight   window.innerWidth, window.innerHeight
\*   resize     the resize listeners init() added to the window that are
\*              still registered, counted up to MaxListeners
\*   attached   this.container and this.svg are in the document
\*   orphans    containers (each with its svg) this instance made and put
\*              in the document that it no longer names, counted up to
\*              MaxOrphans
\*   style      the #liquid-glass-border-styles element is in the document
\*   other      the container of a second LiquidGlassCore: "none" (not
\*              initialised, or destroyed), "detached" or "attached"
NoDom ==
  [innerWidth |-> innerWidth, innerHeight |-> innerHeight, resize |-> 0,
   attached |-> FALSE, orphans |-> 0, style |-> FALSE, other |-> "none"]

\* document.querySelectorAll('.liquid-glass-container').length
existingContainers(d) ==
  (IF d.attached THEN 1 ELSE 0) + d.orphans + (IF d.other = "attached" THEN 1 ELSE 0)

\* No static utility function was called yet.
NoProbe == [fn |-> "none", a |-> 0, b |-> 0, t |-> 0, result |-> Finite(0, 1)]

\* ------------------------------------------------- the WASM demo
\* The page (class LiquidGlass of the demo) and its worker
\* (shader-worker.js) before initializeWasm.
\*   worker      this.worker: "null", "new" (made, its script not yet run)
\*               or "running"
\*   toWorker, toMain   the messages posted and not yet handled, in order
\*   loading     the initWasm() calls of the worker that have not finished
\*   isInitialized, glassState   the worker's variables (glassState: set)
\*   wasmReady   this.wasmReady
\*   initRuns, initComplete, createSent, states, frames, computed, results
\*               initWasm() calls finished, init-complete messages posted,
\*               create-state messages posted, GlassState objects made,
\*               compute-frame messages posted, compute-frame messages
\*               handled, frame-result messages posted
\*   arrived     the state-created messages the page has handled
\*   early       a compute-frame was posted before state-created arrived
NoWasm ==
  [worker |-> "null", toWorker |-> <<>>, toMain |-> <<>>, loading |-> 0,
   isInitialized |-> FALSE, glassState |-> FALSE, wasmReady |-> FALSE,
   initRuns |-> 0, initComplete |-> 0, createSent |-> 0, states |-> 0,
   frames |-> 0, computed |-> 0, results |-> 0, arrived |-> 0,
   early |-> FALSE]

Message(type) == [type |-> type, success |-> TRUE]

\* initializeWasm of the page: new Worker, onmessage, postMessage init.
initializeWasm(w) ==
  [w EXCEPT !.worker = "new", !.toWorker = Append(w.toWorker, Message("init"))]

\* initWasm() of the worker up to its first await.
initWasm(w) == [w EXCEPT !.loading = w.loading + 1]

\* The rest of initWasm(): the module loaded (success) or the catch block.
initWasmEnd(w, success) ==
  [w EXCEPT !.loading = w.loading - 1,
            !.initRuns = w.initRuns + 1,
            !.isInitialized = w.isInitialized \/ success,
            !.initComplete = w.initComplete + 1,
            !.toMain = Append(w.toMain, [type |-> "init-complete", success |-> success])]

\* The last line of the worker's script: initWasm().
workerScript(w) == initWasm([w EXCEPT !.worker = "running"])

\* self.onmessage of the worker, for the message m.
workerOnmessage(w, m) ==
  CASE m.type = "init" -> initWasm(w)
    [] m.type = "create-state" ->
         IF ~w.isInitialized
         THEN [w EXCEPT !.toMain = Append(w.toMain, Message("error"))]
         ELSE [w EXCEPT !.glassState = TRUE, !.states = w.states + 1,
                        !.toMain = Append(w.toMain, Message("state-created"))]
    [] m.type = "compute-frame" ->
         [w EXCEPT !.computed = w.computed + 1, !.results = w.results + 1,
                   !.toMain = Append(w.toMain,
                      [type |-> "frame-result",
                       success |-> w.isInitialized /\ w.glassState])]
    [] OTHER -> w

\* this.worker.onmessage of the page, for the message m; updateViewport
\* posts update-viewport.
pageOnmessage(w, m) ==
  CASE m.type = "init-complete" ->
         IF m.success
         THEN [w EXCEPT !.createSent = w.createSent + 1,
                        !.toWorker = Append(w.toWorker, Message("create-state"))]
         ELSE w
    [] m.type = "state-created" ->
         [w EXCEPT !.wasmReady = TRUE, !.arrived = w.arrived + 1,
                   !.toWorker = Append(w.toWorker, Message("update-viewport"))]
    [] OTHER -> w

\* animate of startAnimation, on a frame that is due.
animate(w) ==
  IF ~w.wasmReady THEN w
  ELSE [w EXCEPT !.frames = w.frames + 1,
                 !.early = w.early \/ w.arrived = 0,
                 !.toWorker = Append(w.toWorker, Message("compute-frame"))]

\* ------------------------------------------------------------ the elements
\* The guard that opens updateShader, forceUpdateShader and
\* performShaderUpdate.
ElementsReady(s) ==
  /\ s.context # "null"
  /\ s.canvas.ref # "null"
  /\ s.feImage # "null"
  /\ s.feDisplacementMap # "null"

SampleW(c) == c.size.width * c.canvasDPI

SampleH(c) == c.size.height * c.canvasDPI

createCanvas(s) ==
  [s EXCEPT !.canvas = [ref |-> "live", width |-> SampleW(s.config),
                        height |-> SampleH(s.config)],
            !.context = "live"]

\* injectGlassBorderStyles, on the document d.
injectGlassBorderStyles(d) == [d EXCEPT !.style = TRUE]

\* createContainer and createSVGFilter: a new container, a new svg whose
\* feImage has no image and whose feDisplacementMap has no scale yet, both
\* outside the document.  A container the instance named before stays where
\* it was.
createElement(s) ==
  createCanvas([s EXCEPT !.container = "live", !.svg = "live",
                         !.feImage = "live", !.feDisplacementMap = "live",
                         !.href = NoHref, !.scale = NoScale,
                         !.place = s.config.position,
                         !.drag.same = FALSE,
                         !.dom = injectGlassBorderStyles(
                           [s.dom EXCEPT
                              !.attached = FALSE,
                              !.orphans = IF s.container # "null" /\ s.dom.attached
                                          THEN Min2(MaxOrphans, s.dom.orphans + 1)
                                          ELSE s.dom.orphans])])

\* setupEventListeners: the pointer listeners go on the new container, the
\* resize listener on the window.
setupEventListeners(s) ==
  IF s.container = "null" THEN s
  ELSE [s EXCEPT !.dom.resize = Min2(MaxListeners, s.dom.resize + 1)]

\* -------------------------------------------------------- the recomputation
\* One sample of the first pass: the displacement of sample i of a w x h
\* grid and whether the warp function read the pointer.
Sample(c, m, i) ==
  LET w == SampleW(c)
      h == SampleH(c)
      x == i % w
      y == i \div w
      res == warp(c.fragment, [x |-> (x * Q) \div w, y |-> (y * Q) \div h], m)
  IN [dx |-> res.pos.x * w - x * Q, dy |-> res.pos.y * h - y * Q, used |-> res.used]

\* A zero-filled typed array of n elements (new ImageData, new
\* Float32Array).
Zeroes(n) == [j \in 1 .. n |-> 0]

\* The ImageData and the Float32Array the recomputation writes into: the
\* ones of the recomputation before it when their sizes fit, else new ones.
ReusedImageData(s, w, h) ==
  IF s.imageData.ref = "null" \/ s.imageData.width # w \/ s.imageData.height # h
  THEN [ref |-> "live", width |-> w, height |-> h, data |-> Zeroes(w * h * 4)]
  ELSE s.imageData

ReusedRawValues(s, w, h) ==
  IF s.rawValues.ref = "null" \/ Len(s.rawValues.values) # w * h * 2
  THEN [ref |-> "live", values |-> Zeroes(w * h * 2)]
  ELSE s.rawValues

\* The first pass adding to rawValues (+=) instead of storing into it.
FirstPass_adds(c, m, n, raw0) ==
  LET Pass(smp) ==
        LET mags == {0} \cup {Abs(smp[i].dx) : i \in 0 .. n - 1}
                        \cup {Abs(smp[i].dy) : i \in 0 .. n - 1}
        IN [values |-> [j \in DOMAIN raw0 |->
                          IF j > 2 * n THEN raw0[j]
                          ELSE IF j % 2 = 1 THEN raw0[j] + smp[(j - 1) \div 2].dx
                          ELSE raw0[j] + smp[(j - 1) \div 2].dy],
            maxScale |-> CHOOSE a \in mags : \A b \in mags : b <= a,
            used |-> \E i \in 0 .. n - 1 : smp[i].used]
  IN CHOOSE r \in {Pass(smp) : smp \in {[i \in 0 .. n - 1 |-> Sample(c, m, i)]}} : TRUE

\* The first pass, one iteration per four bytes of data (n iterations):
\* rawValues (dx, dy per sample) written over raw0, the running maximum
\* and whether any sample read the pointer.
FirstPass(c, m, n, raw0) ==
  LET Pass(smp) ==
        LET mags == {0} \cup {Abs(smp[i].dx) : i \in 0 .. n - 1}
                        \cup {Abs(smp[i].dy) : i \in 0 .. n - 1}
        IN [values |-> [j \in DOMAIN raw0 |->
                          IF j > 2 * n THEN raw0[j]
                          ELSE IF j % 2 = 1 THEN smp[(j - 1) \div 2].dx
                          ELSE smp[(j - 1) \div 2].dy],
            maxScale |-> CHOOSE a \in mags : \A b \in mags : b <= a,
            used |-> \E i \in 0 .. n - 1 : smp[i].used]
  IN \* the loop runs once: smp is its one table of samples
     CHOOSE r \in {Pass(smp) : smp \in {[i \in 0 .. n - 1 |-> Sample(c, m, i)]}} : TRUE

\* maxScale *= 0.6
Damp_sixTenths(maxScale) == [n |-> 3 * maxScale, d |-> 5]

\* maxScale *= 0.5, kept as the ratio maxScale / 2.
Damp(maxScale) == [n |-> maxScale, d |-> 2]

\* The channel with the half added before the division:
\* (raw + 0.5) / maxScale * 255.
Channel_addsFirst(raw, maxScale) ==
  ToUint8Clamp(FTimes255(FDiv(raw + Q \div 2, maxScale)))

\* One channel of the second pass: data[i] = (raw / maxScale + 0.5) * 255.
Channel(raw, maxScale) == ToUint8Clamp(FTimes255(FAddHalf(FDiv(raw, maxScale))))

\* The second pass writing R and G only.
SecondPass_leavesBA(data0, values, maxScale) ==
  [j \in DOMAIN data0 |->
     CASE j % 4 = 1 -> Channel(values[(j + 1) \div 2], maxScale)
       [] j % 4 = 2 -> Channel(values[j \div 2 + 1], maxScale)
       [] OTHER -> data0[j]]

\* The second pass: four bytes per sample, written over data0.
SecondPass(data0, values, maxScale) ==
  [j \in DOMAIN data0 |->
     CASE j % 4 = 1 -> Channel(values[(j + 1) \div 2], maxScale)
       [] j % 4 = 2 -> Channel(values[j \div 2 + 1], maxScale)
       [] j % 4 = 3 -> 0
       [] OTHER -> 255]

\* performShaderUpdate, reached through `path` ("throttled" or "forced").
performShaderUpdate(s, path) ==
  IF ~ElementsReady(s) THEN s
  ELSE IF SampleW(s.config) <= 0 \/ SampleH(s.config) <= 0
  THEN \* new ImageData(w, h) throws, after this.mouseUsed = false
       [s EXCEPT !.mouseUsed = FALSE, !.hist.threw = TRUE]
  ELSE
    LET c == s.config
        w == SampleW(c)
        h == SampleH(c)
        image0 == ReusedImageData(s, w, h)
        raw0 == ReusedRawValues(s, w, h)
        Written(first, data) ==
          [s EXCEPT
             !.mouseUsed = first.used,
             !.imageData = [image0 EXCEPT !.data = data],
             !.rawValues = [raw0 EXCEPT !.values = first.values],
             !.href = [set |-> TRUE, width |-> s.canvas.width,
                       height |-> s.canvas.height, data |-> data],
             !.scale = [set |-> TRUE,
                        num |-> Damp(first.maxScale).n * c.effects.displacementScale,
                        den |-> Damp(first.maxScale).d * c.canvasDPI],
             !.hist = [s.hist EXCEPT
                         !.runs = s.hist.runs + 1,
                         !.run = [path |-> path, gap |-> s.hist.since,
                                  coalesced |-> s.hist.calls,
                                  stale |-> s.feImage = "stale"],
                         !.since = 0,
                         !.inputs = Inputs(s),
                         !.calls = 0,
                         !.overtaken = IF path = "forced" THEN s.pendingShaderUpdate
                                       ELSE s.hist.overtaken,
                         !.torn = FALSE]]
    IN \* each pass runs once: first and data are its one result
       CHOOSE r \in
         {CHOOSE q \in {Written(first, data) :
                          data \in {SecondPass(image0.data, first.values,
                                                Damp(first.maxScale))}} : TRUE :
            first \in {FirstPass(c, s.mouse, Len(image0.data) \div 4, raw0.values)}} : TRUE

\* setTimeout(callback, delay): the delay is truncated to whole
\* milliseconds; the callback runs no earlier than that.
setTimeout(s, delay) ==
  [s EXCEPT !.timers = Append(s.timers,
      [left |-> (delay \div TicksPerMs) * TicksPerMs, cut |-> FALSE])]

\* this.lastShaderUpdate = now
Stamp(s) == [s EXCEPT !.elapsed = 0]

updateShader(s0) ==
  LET s == [s0 EXCEPT !.hist.asked = TRUE]
  IN IF ~ElementsReady(s) THEN s
     ELSE IF s.elapsed < ThrottleTicks
     THEN LET t == [s EXCEPT !.hist.calls = Min2(MaxCalls, s.hist.calls + 1)]
          IN IF ~s.pendingShaderUpdate
             THEN setTimeout([t EXCEPT !.pendingShaderUpdate = TRUE],
                             ThrottleTicks - s.elapsed)
             ELSE t
     ELSE performShaderUpdate(Stamp(s), "throttled")

\* forceUpdateShader without the stamp of this.lastShaderUpdate.
forceUpdateShader_unstamped(s) ==
  IF ~ElementsReady(s) THEN s
  ELSE performShaderUpdate(s, "forced")

\* forceUpdateShader going through the throttle.
forceUpdateShader_throttled(s) == updateShader(s)

forceUpdateShader(s) ==
  IF ~ElementsReady(s) THEN s
  ELSE performShaderUpdate(Stamp(s), "forced")

\* ------------------------------------------------------------ the methods
\* setupEventListeners registers the pointer handlers on the container; the
\* actions below deliver a pointer event only to the current container.
init(s) == updateShader(setupEventListeners(createElement(s)))

\* appendTo(document.body)
appendTo(s) ==
  IF s.svg # "null" /\ s.container # "null"
  THEN [s EXCEPT !.dom.attached = TRUE,
                 !.drag.attached = s.drag.attached \/ s.drag.same]
  ELSE s

\* The end of destroy(): the injected style element goes when the document
\* d holds no container.
removeStyles(d) == IF existingContainers(d) = 0 THEN [d EXCEPT !.style = FALSE] ELSE d

\* init(), appendTo(document.body) and destroy() of a second
\* LiquidGlassCore, as far as the document d sees them.
otherInit(d) == injectGlassBorderStyles([d EXCEPT !.other = "detached"])

otherAppendTo(d) == IF d.other # "none" THEN [d EXCEPT !.other = "attached"] ELSE d

otherDestroy(d) == removeStyles([d EXCEPT !.other = "none"])

\* destroy() drops svg, container and canvas and the two caches.  It keeps
\* this.context, this.feImage and this.feDisplacementMap, which from then on
\* name elements of the removed svg and canvas, and it neither clears the
\* retry timer nor pendingShaderUpdate.  removeEventListener is handed
\* this.handleResize, not the function bind() made for addEventListener, so
\* the resize listener stays.
destroy(s) ==
  [s EXCEPT
     !.dom = removeStyles([s.dom EXCEPT !.attached = FALSE]),
     !.svg = "null",
     !.feImage = IF s.svg # "null" /\ s.feImage = "live" THEN "stale" ELSE s.feImage,
     !.feDisplacementMap = IF s.svg # "null" /\ s.feDisplacementMap = "live"
                           THEN "stale" ELSE s.feDisplacementMap,
     !.container = "null",
     !.drag = IF s.container # "null" /\ s.drag.same
              THEN [s.drag EXCEPT !.attached = FALSE, !.same = FALSE]
              ELSE s.drag,
     !.canvas = NoCanvas,
     !.context = IF s.canvas.ref # "null" /\ s.context = "live"
                 THEN "stale" ELSE s.context,
     !.imageData = NoImageData,
     !.rawValues = NoRawValues,
     !.timers = [i \in DOMAIN s.timers |-> [s.timers[i] EXCEPT !.cut = TRUE]],
     !.hist = [s.hist EXCEPT !.torn = TRUE]]

\* setSize without the new canvas.
setSize_keepsCanvas(s, size) ==
  updateShader([s EXCEPT !.config.size = size])

setSize(s, size) ==
  updateShader(createCanvas([s EXCEPT !.config.size = size]))

\* { ...defaultConfig, ...userConfig, size: {...}, effects: {...} }
mergeConfig(defaultConfig, userConfig) ==
  [k \in DOMAIN defaultConfig |->
     IF k \in DOMAIN userConfig
     THEN IF k \in {"size", "position", "effects"}
          THEN [f \in DOMAIN defaultConfig[k] |->
                  IF f \in DOMAIN userConfig[k] THEN userConfig[k][f]
                  ELSE defaultConfig[k][f]]
          ELSE userConfig[k]
     ELSE defaultConfig[k]]

updateConfig(s, newConfig) ==
  LET currentParent == s.container # "null" /\ s.dom.attached
      t == init(destroy([s EXCEPT !.config = mergeConfig(s.config, newConfig)]))
  IN IF currentParent THEN appendTo(t) ELSE t

updateEffects(s, effects) ==
  forceUpdateShader(
    [s EXCEPT !.config.effects =
       [f \in DOMAIN s.config.effects |->
          IF f \in DOMAIN effects THEN effects[f] ELSE s.config.effects[f]]])

handleMouseMove(s, p) ==
  IF s.container = "null" THEN s
  ELSE LET t == [s EXCEPT !.mouse = p]
       IN IF t.mouseUsed THEN updateShader(t) ELSE t

handleMouseLeave(s) ==
  LET t == [s EXCEPT !.mouse = [x |-> Q \div 2, y |-> Q \div 2]]
  IN IF t.mouseUsed THEN updateShader(t) ELSE t

\* ------------------------------------------------------------ the position
\* constrainPosition taking the minimum last.
constrainPosition_minLast(s, x, y) ==
  IF ~s.config.constrainToViewport THEN [x |-> x, y |-> y]
  ELSE LET minX == s.config.offset
           maxX == s.dom.innerWidth - s.config.size.width - s.config.offset
           minY == s.config.offset
           maxY == s.dom.innerHeight - s.config.size.height - s.config.offset
       IN [x |-> Min2(maxX, Max2(minX, x)), y |-> Min2(maxY, Max2(minY, y))]

constrainPosition(s, x, y) ==
  IF ~s.config.constrainToViewport THEN [x |-> x, y |-> y]
  ELSE LET minX == s.config.offset
           maxX == s.dom.innerWidth - s.config.size.width - s.config.offset
           minY == s.config.offset
           maxY == s.dom.innerHeight - s.config.size.height - s.config.offset
       IN [x |-> Max2(minX, Min2(maxX, x)), y |-> Max2(minY, Min2(maxY, y))]

setPosition(s, position) ==
  LET t == [s EXCEPT !.config.position = position]
  IN IF t.container = "null" THEN t
     ELSE [t EXCEPT !.place = constrainPosition(t, position.x, position.y)]

\* getBoundingClientRect() of the container: left and top of the fixed
\* element in the document, zeroes for an element outside it.
Rect(s) == IF s.dom.attached THEN s.place ELSE [x |-> 0, y |-> 0]

getPosition(s) == IF s.container # "null" THEN Rect(s) ELSE s.config.position

handleResize(s) ==
  IF s.container = "null" THEN s
  ELSE LET rect == Rect(s)
           constrained == constrainPosition(s, rect.x, rect.y)
       IN IF rect # constrained THEN [s EXCEPT !.place = constrained] ELSE s

\* ------------------------------------------------ LiquidGlassDraggable
\* new LiquidGlassDraggable(target, config): setupEventListeners adds the
\* listeners only when the target has a container.
newDraggable(s, userConfig) ==
  [s EXCEPT !.drag = [NoDraggable EXCEPT
      !.made = TRUE,
      !.container = s.container,
      !.listening = s.container # "null",
      !.attached = s.container # "null" /\ s.dom.attached,
      !.same = s.container # "null",
      !.config = [k \in DOMAIN NoDraggable.config |->
                    IF k \in DOMAIN userConfig THEN userConfig[k]
                    ELSE NoDraggable.config[k]]]]

startDrag(s, clientX, clientY) ==
  IF s.drag.container = "null" THEN s
  ELSE LET currentPosition == getPosition(s)
       IN [s EXCEPT
             !.drag.isDragging = TRUE,
             !.drag.dragStart = [set |-> TRUE, x |-> clientX, y |-> clientY,
                                 initialX |-> currentPosition.x,
                                 initialY |-> currentPosition.y],
             !.drag.fired = Append(s.drag.fired, "onDragStart"),
             !.drag.open = Min2(MaxOpen, s.drag.open + 1)]

updateDrag(s, clientX, clientY) ==
  IF ~s.drag.isDragging \/ ~s.drag.dragStart.set THEN s
  ELSE LET newPosition == [x |-> s.drag.dragStart.initialX + clientX - s.drag.dragStart.x,
                           y |-> s.drag.dragStart.initialY + clientY - s.drag.dragStart.y]
           finalPosition == IF s.drag.config.constrainToViewport
                            THEN constrainPosition(s, newPosition.x, newPosition.y)
                            ELSE newPosition
           t == setPosition(s, finalPosition)
       IN [t EXCEPT !.drag.moved = TRUE,
                    !.drag.wanted = newPosition,
                    !.drag.passed = finalPosition,
                    !.drag.moves = Min2(MaxMoves, s.drag.moves + 1),
                    !.drag.fired = Append(s.drag.fired, "onDrag")]

endDrag(s) ==
  IF ~s.drag.isDragging \/ s.drag.container = "null" THEN s
  ELSE [s EXCEPT
          !.drag.isDragging = FALSE,
          !.drag.fired = Append(s.drag.fired, "onDragEnd"),
          !.drag.open = Max2(0, s.drag.open - 1),
          !.drag.dragStart = NoDragStart]

\* The handlers of LiquidGlassDraggable (its handleMouseMove is not the one
\* of LiquidGlassCore).  touches is e.touches.
draggableHandleMouseDown(s, p) ==
  IF s.drag.container = "null" THEN s ELSE startDrag(s, p.x, p.y)

draggableHandleMouseMove(s, p) ==
  IF ~s.drag.isDragging \/ ~s.drag.dragStart.set THEN s ELSE updateDrag(s, p.x, p.y)

draggableHandleMouseUp(s) == endDrag(s)

draggableHandleTouchStart(s, touches) ==
  IF s.drag.container = "null" \/ Len(touches) # 1 THEN s
  ELSE startDrag(s, touches[1].x, touches[1].y)

draggableHandleTouchMove(s, touches) ==
  IF ~s.drag.isDragging \/ ~s.drag.dragStart.set \/ Len(touches) # 1 THEN s
  ELSE updateDrag(s, touches[1].x, touches[1].y)

draggableHandleTouchEnd(s) == endDrag(s)

isDragginActive(s) == s.drag.isDragging

\* LiquidGlassDraggable.destroy(): removeEventListener is handed the
\* methods themselves, not the functions bind() made when the listeners
\* were added, so it removes none of them.
draggableDestroy(s) ==
  [s EXCEPT !.drag.container = "null", !.drag.destroyed = TRUE]

\* The callback clearing the flag and forgetting the update.
retry_dropsUpdate(s, i) ==
  [s EXCEPT
     !.timers = SubSeq(s.timers, 1, i - 1) \o SubSeq(s.timers, i + 1, Len(s.timers)),
     !.pendingShaderUpdate = FALSE]

\* The callback leaving pendingShaderUpdate set.
retry_keepsPending(s, i) ==
  updateShader([s EXCEPT
     !.timers = SubSeq(s.timers, 1, i - 1) \o SubSeq(s.timers, i + 1, Len(s.timers))])

\* The callback recomputing without asking updateShader again.
retry_unchecked(s, i) ==
  performShaderUpdate(Stamp([s EXCEPT
     !.timers = SubSeq(s.timers, 1, i - 1) \o SubSeq(s.timers, i + 1, Len(s.timers)),
     !.pendingShaderUpdate = FALSE]), "throttled")

\* The callback going through forceUpdateShader.
retry_forced(s, i) ==
  forceUpdateShader([s EXCEPT
     !.timers = SubSeq(s.timers, 1, i - 1) \o SubSeq(s.timers, i + 1, Len(s.timers)),
     !.pendingShaderUpdate = FALSE])

\* The callback updateShader hands to setTimeout, for timer i.
retry(s, i) ==
  updateShader([s EXCEPT
     !.timers = SubSeq(s.timers, 1, i - 1) \o SubSeq(s.timers, i + 1, Len(s.timers)),
     !.pendingShaderUpdate = FALSE])

\* ------------------------------------------------------------------ inputs
DEFAULT_CONFIG ==
  [size |-> [width |-> 2, height |-> 1],
   position |-> [x |-> 0, y |-> 0],
   offset |-> 10,
   canvasDPI |-> 1,
   constrainToViewport |-> TRUE,
   effects |-> [displacementScale |-> 1],
   fragment |-> "default"]

Sizes == {[width |-> 1, height |-> 1], [width |-> 2, height |-> 1]}

Fragments == {"default", "mouseEdge"}

EffectSets == {[displacementScale |-> 1], [displacementScale |-> 2]}

MousePoints == {[x |-> Q \div 4, y |-> Q \div 4]}

\* The partial configurations handed to the constructor and to updateConfig.
UserConfigs ==
  {[fragment |-> f] : f \in Fragments} \cup {[size |-> z] : z \in Sizes}

\* -------------------------------------------------------------- the actions
\* An operation begins: the history forgets what the step before did.
Begin(op) ==
  [State EXCEPT !.drag = [drag EXCEPT
                           !.fired = <<>>, !.moved = FALSE,
                           !.updated = drag.made /\ (drag.updated \/ op = "updateConfig"),
                           !.down = IF op = "containermousedown" \/
                                       (op = "mousedown" /\ drag.same)
                                    THEN TRUE
                                    ELSE IF op \in {"mouseup", "updateConfig", "init",
                                                    "destroy"}
                                    THEN FALSE ELSE drag.down,
                           !.before = [open |-> drag.open,
                                       destroyed |-> drag.destroyed,
                                       position |-> getPosition(State)]],
                !.hist = [hist EXCEPT !.op = op, !.runs = 0,
                                      !.used0 = mouseUsed,
                                      !.asked = FALSE,
                                      !.threw = FALSE,
                                      !.pending0 = pendingShaderUpdate,
                                      !.newConfig = <<>>,
                                      !.pointer = IF op = "mousemove" THEN TRUE
                                                  ELSE IF op = "mouseleave" THEN FALSE
                                                  ELSE hist.pointer,
                                      !.overtaken0 = hist.overtaken,
                                      !.overtaken = hist.overtaken /\
                                                    op \notin {"retry", "retryCut"},
                                      !.run = NoRun,
                                      !.inputs = NoInputs]]

\* The clock moves on by d ticks.
Advance(s, d) ==
  [s EXCEPT
     !.elapsed = Min2(ThrottleTicks, s.elapsed + d),
     !.timers = [i \in DOMAIN s.timers |->
                   [s.timers[i] EXCEPT !.left = Max2(0, s.timers[i].left - d)]],
     !.hist.since = IF s.hist.since < 0 THEN s.hist.since
                    ELSE Min2(ThrottleTicks, s.hist.since + d)]

Tick == \E d \in TickSteps : Becomes(Advance(Begin("tick"), d))

TimerFire ==
  \E i \in DOMAIN timers :
    /\ timers[i].left = 0
    /\ Becomes(retry(Begin(IF timers[i].cut THEN "retryCut" ELSE "retry"), i))

Init_ == Becomes(init(Begin("init")))

Destroy == Becomes(destroy(Begin("destroy")))

SetSize(sizes) == \E z \in sizes : Becomes(setSize(Begin("setSize"), z))

UpdateConfig(configs) ==
  \E c \in configs :
    Becomes(updateConfig([Begin("updateConfig") EXCEPT !.hist.newConfig = c], c))

UpdateEffects(effects) ==
  \E e \in effects : Becomes(updateEffects(Begin("updateEffects"), e))

MouseMove(points) ==
  /\ container # "null"
  /\ \E p \in points : Becomes(handleMouseMove(Begin("mousemove"), p))

MouseLeave ==
  /\ container # "null"
  /\ Becomes(handleMouseLeave(Begin("mouseleave")))

\* The events of a LiquidGlassDraggable.  mousedown and touchstart reach the
\* element while it is in the document; the other four reach the document.
\* touches is e.touches, of one or two fingers.
Touches(points) == {<<p>> : p \in points} \cup {<<p, p>> : p \in points}

NewDraggable(configs) ==
  /\ ~drag.made
  /\ \E c \in configs : Becomes(newDraggable(Begin("newDraggable"), c))

DragMouseDown(points) ==
  /\ drag.attached
  /\ \E p \in points : Becomes(draggableHandleMouseDown(Begin("mousedown"), p))

DragMouseMove(points) ==
  /\ drag.listening
  /\ drag.isDragging => drag.moves < MaxMoves
  /\ \E p \in points : Becomes(draggableHandleMouseMove(Begin("dragmousemove"), p))

DragMouseUp ==
  /\ drag.listening
  /\ Becomes(draggableHandleMouseUp(Begin("mouseup")))

DragTouchStart(points) ==
  /\ drag.attached
  /\ \E ts \in Touches(points) :
       Becomes(draggableHandleTouchStart(Begin("touchstart"), ts))

DragTouchMove(points) ==
  /\ drag.listening
  /\ drag.isDragging => drag.moves < MaxMoves
  /\ \E ts \in Touches(points) :
       Becomes(draggableHandleTouchMove(Begin("touchmove"), ts))

DragTouchEnd ==
  /\ drag.listening
  /\ Becomes(draggableHandleTouchEnd(Begin("touchend")))

DragDestroy ==
  /\ drag.made
  /\ Becomes(draggableDestroy(Begin("draggableDestroy")))

AppendTo == Becomes(appendTo(Begin("appendTo")))

SetPosition(points) == \E p \in points : Becomes(setPosition(Begin("setPosition"), p))

\* A mousedown on the container the target names now, when that is not the
\* element the draggable put its listener on: no handler of the draggable
\* runs.
ContainerMouseDown ==
  /\ container # "null" /\ dom.attached
  /\ drag.made /\ ~drag.same
  /\ Becomes(Begin("containermousedown"))

\* The second instance is initialised once between two destroys.
OtherInit ==
  /\ dom.other = "none"
  /\ Becomes([Begin("otherInit") EXCEPT !.dom = otherInit(dom)])

OtherAppendTo == Becomes([Begin("otherAppendTo") EXCEPT !.dom = otherAppendTo(dom)])

OtherDestroy == Becomes([Begin("otherDestroy") EXCEPT !.dom = otherDestroy(dom)])

\* The window takes the size v and calls the resize listeners: they are
\* all handleResize of this instance.
Resize(viewports) ==
  \E v \in viewports :
    \E t \in {[Begin("resize") EXCEPT !.dom.innerWidth = v.innerWidth,
                                      !.dom.innerHeight = v.innerHeight]} :
      Becomes(IF t.dom.resize >= 1 THEN handleResize(t) ELSE t)

\* LiquidGlassCore.constrainPosition called on its own, and once more on
\* its result.
ConstrainCall(coords) ==
  /\ \E x \in coords, y \in coords :
       \E r \in {constrainPosition(State, x, y)} :
         probe' = [fn |-> "constrainPosition", x |-> x, y |-> y, result |-> r,
                   again |-> constrainPosition(State, r.x, r.y)]
  /\ hist' = [hist EXCEPT !.op = "constrainPosition"]
  /\ UNCHANGED <<elapsed, timers, config, container, svg, canvas, context, feImage,
                 feDisplacementMap, mouse, mouseUsed, pendingShaderUpdate,
                 imageData, rawValues, href, scale, place, drag, dom, wasm>>

\* performance.now() when the constructor runs: the page has just begun to
\* load, or has been loaded for an interval or more (lastShaderUpdate = 0).
Starts == {0, ThrottleTicks}

\* new LiquidGlassCore(userConfig), at time `now` of the page.
Constructed(userConfig, now) ==
  LET s == [elapsed |-> Min2(ThrottleTicks, now), timers |-> <<>>,
            config |-> mergeConfig(DEFAULT_CONFIG, userConfig),
            container |-> "null", svg |-> "null", canvas |-> NoCanvas,
            context |-> "null", feImage |-> "null", feDisplacementMap |-> "null",
            mouse |-> [x |-> 0, y |-> 0], mouseUsed |-> FALSE,
            pendingShaderUpdate |-> FALSE,
            imageData |-> NoImageData, rawValues |-> NoRawValues,
            href |-> NoHref, scale |-> NoScale,
            place |-> [x |-> 0, y |-> 0], drag |-> NoDraggable, dom |-> NoDom,
            hist |-> NoHist]
  IN s

InitWith(configs) ==
  \E c \in configs, now \in Starts :
    LET s == Constructed(c, now)
    IN /\ elapsed = s.elapsed /\ timers = s.timers /\ config = s.config
       /\ container = s.container /\ svg = s.svg /\ canvas = s.canvas
       /\ context = s.context /\ feImage = s.feImage
       /\ feDisplacementMap = s.feDisplacementMap /\ mouse = s.mouse
       /\ mouseUsed = s.mouseUsed
       /\ pendingShaderUpdate = s.pendingShaderUpdate /\ imageData = s.imageData
       /\ rawValues = s.rawValues /\ href = s.href /\ scale = s.scale
       /\ place = s.place /\ drag = s.drag /\ dom = s.dom
       /\ hist = s.hist
       /\ probe = NoProbe
       /\ wasm = NoWasm

Init == InitWith(UserConfigs)

Next ==
  \/ Tick
  \/ TimerFire
  \/ Init_
  \/ Destroy
  \/ SetSize(Sizes)
  \/ UpdateConfig(UserConfigs)
  \/ UpdateEffects(EffectSets)
  \/ MouseMove(MousePoints)
  \/ MouseLeave

Spec == Init /\ [][Next]_vars

\* The same instance with one configuration, for the properties of
\* behaviours: a warp function that reads the pointer on a 2 x 1 surface.
FairConfigs == {[fragment |-> "mouseEdge"]}

FairSizes == {[width |-> 2, height |-> 1]}

FairEffects == {[displacementScale |-> 1]}

InitFair == InitWith(FairConfigs)

NextFair ==
  \/ Tick
  \/ TimerFire
  \/ Init_
  \/ Destroy
  \/ SetSize(FairSizes)
  \/ UpdateConfig(FairConfigs)
  \/ UpdateEffects(FairEffects)
  \/ MouseMove(MousePoints)
  \/ MouseLeave

\* Time passes and the event loop runs a timer that is due.
SpecFair == InitFair /\ [][NextFair]_vars /\ WF_vars(Tick) /\ WF_vars(TimerFire)

\* The recomputation alone, over more surfaces and warp functions: the clock
\* stands still, so init() recomputes only on a page loaded for an interval
\* or more, and updateEffects() recomputes every time.
EncSizes == {[width |-> w, height |-> h] : w \in {1, 2, 4}, h \in {1, 2}}

EncConfigs ==
  {[fragment |-> f, size |-> z, canvasDPI |-> d] :
     f \in FragmentNames \cup DOMAIN Amplified, z \in EncSizes, d \in {1, 2}}

EncPoints == {[x |-> Q \div 4, y |-> Q \div 4], [x |-> (3 * Q) \div 4, y |-> Q \div 2]}

InitEnc == InitWith(EncConfigs)

NextEnc ==
  \/ Init_
  \/ UpdateEffects(EffectSets)
  \/ MouseMove(EncPoints)
  \/ MouseLeave

SpecEnc == InitEnc /\ [][NextEnc]_vars

\* The same instance with sizes that have no area.
GeoSizes ==
  {[width |-> 0, height |-> 1], [width |-> 1, height |-> 0], [width |-> 1, height |-> 1]}

GeoConfigs == {[size |-> z] : z \in GeoSizes}

InitGeo == InitWith(GeoConfigs)

NextGeo ==
  \/ Tick
  \/ TimerFire
  \/ Init_
  \/ Destroy
  \/ SetSize(GeoSizes)
  \/ UpdateConfig(GeoConfigs)
  \/ UpdateEffects(FairEffects)
  \/ MouseMove(MousePoints)
  \/ MouseLeave

SpecGeo == InitGeo /\ [][NextGeo]_vars

\* A draggable element in the window of innerWidth x innerHeight, with and
\* without the target's own constrainToViewport; the clock stands still,
\* and the target is initialised once and rebuilt by updateConfig only.
DragConfigs ==
  {[position |-> [x |-> 12, y |-> 12], constrainToViewport |-> b] : b \in BOOLEAN}

DraggableConfigs == {[constrainToViewport |-> b] : b \in BOOLEAN}

DragPoints == {[x |-> 0, y |-> 0], [x |-> 3, y |-> 2]}

DragEvents ==
  {"mousedown", "dragmousemove", "mouseup", "touchstart", "touchmove", "touchend"}

InitDrag == InitWith(DragConfigs)

InitOnce == container = "null" /\ Init_

NextDrag ==
  \/ InitOnce
  \/ AppendTo
  \/ UpdateConfig({<<>>})
  \/ ContainerMouseDown
  \/ NewDraggable(DraggableConfigs)
  \/ DragMouseDown(DragPoints)
  \/ DragMouseMove(DragPoints)
  \/ DragMouseUp
  \/ DragTouchStart(DragPoints)
  \/ DragTouchMove(DragPoints)
  \/ DragTouchEnd
  \/ DragDestroy

SpecDrag == InitDrag /\ [][NextDrag]_vars

\* The static utility LiquidGlassCore.smoothStep called on its own, with
\* edges and arguments between -1/2 and 3/2, counted in quarters (the
\* result is a ratio, so the unit cancels).
StepValues == (0 - 2) .. 6

SmoothStepCall ==
  /\ \E a \in StepValues, b \in StepValues, t \in StepValues :
       probe' = [fn |-> "smoothStep", a |-> a, b |-> b, t |-> t,
                 result |-> smoothStepValue(a, b, t)]
  /\ UNCHANGED <<elapsed, timers, config, container, svg, canvas, context, feImage,
                 feDisplacementMap, mouse, mouseUsed, pendingShaderUpdate,
                 imageData, rawValues, href, scale, place, drag, dom, hist, wasm>>

InitStep == InitWith({[fragment |-> "default"]})

NextStep == SmoothStepCall

SpecStep == InitStep /\ [][NextStep]_vars

\* ------------------------------------------------------------- properties
Current == [mouse |-> mouse, config |-> config]

\* C1: a recomputation reached through updateShader begins at least one
\* throttle interval after the recomputation before it began, whichever
\* path that one took.
C1_ThrottleSpacing ==
  hist.run.path = "throttled" =>
    (hist.run.gap < 0 \/ hist.run.gap >= ThrottleTicks)

\* A throttled recomputation, by the retry timer, one interval after an
\* earlier recomputation.
C1_Witness ==
  /\ hist.op = "retry"
  /\ hist.run.path = "throttled"
  /\ hist.run.gap = ThrottleTicks

\* C2: once updateShader calls were throttled after a recomputation, with
\* no destroy since (a forced update is a recomputation and starts the
\* count again), exactly one retry is outstanding; when it recomputes, it
\* does so once, a full interval after that recomputation, from the pointer
\* state of that moment, and leaves no further retry behind.
C2_Window == hist.calls >= 1 /\ ~hist.torn /\ hist.since >= 0

C2_Step ==
  C2_Window =>
    /\ Len(timers) = 1
    /\ pendingShaderUpdate
    /\ (hist'.op = "retry" /\ hist'.runs >= 1) =>
         /\ hist'.runs = 1
         /\ hist'.run.gap = ThrottleTicks
         /\ hist'.inputs.mouse = mouse
         /\ timers' = <<>>
         /\ ~pendingShaderUpdate'

C2_TrailingCoalescing == [][C2_Step]_vars

\* The retry answered two or more throttled calls and read the pointer
\* state the mouseleave before it wrote.
C2_Witness ==
  /\ hist.op = "retry"
  /\ hist.runs = 1
  /\ hist.run.coalesced = MaxCalls
  /\ hist.run.gap = ThrottleTicks
  /\ hist.inputs.mouse = [x |-> Q \div 2, y |-> Q \div 2]

\* C3: pendingShaderUpdate is true exactly when one retry timer is
\* outstanding, and never more than one is.
C3_OneRetry ==
  /\ Len(timers) <= 1
  /\ pendingShaderUpdate <=> Len(timers) = 1

\* updateShader was called by setSize while a retry was pending.
C3_Witness ==
  /\ hist.op = "setSize"
  /\ hist.calls = MaxCalls
  /\ pendingShaderUpdate
  /\ Len(timers) = 1

\* C4: while the elements exist, a throttled updateShader call is followed
\* by a recomputation that read the pointer state and configuration as
\* they are when it runs, provided time passes and due timers fire.
C4_Owed == hist.calls >= 1 /\ ElementsReady(State)

C4_Answered == hist.runs >= 1 /\ hist.inputs = Current

C4_NoFinalStateDropped == C4_Owed ~> (C4_Answered \/ ~ElementsReady(State))

\* The retry timer answered a throttled call.
C4_Witness ==
  /\ hist.op = "retry"
  /\ hist.run.coalesced >= 1
  /\ C4_Answered

\* C5: a forced update (updateEffects) of an instance whose elements exist
\* has recomputed, once and from the current inputs, when it returns, and
\* has set lastShaderUpdate to the current time.
C5_ForcedIsSynchronous ==
  (hist.op = "updateEffects" /\ ElementsReady(State)) =>
    /\ hist.runs = 1
    /\ hist.run.path = "forced"
    /\ hist.inputs = Current
    /\ elapsed = 0
    /\ href.set /\ scale.set

\* A forced update less than an interval after the recomputation before it,
\* with a retry pending.
C5_Witness ==
  /\ hist.op = "updateEffects"
  /\ hist.runs = 1
  /\ hist.run.gap >= 0
  /\ hist.run.gap < ThrottleTicks
  /\ pendingShaderUpdate

\* C6: when setSize, updateConfig or updateEffects returns on an instance
\* whose elements exist, a recomputation from the new size and
\* configuration has run and its image and scale are on the filter.
C6_ChangesTakeForcedPath ==
  (hist.op \in {"setSize", "updateConfig", "updateEffects"} /\ ElementsReady(State)) =>
    /\ hist.runs >= 1
    /\ hist.inputs.config = config
    /\ href.set /\ scale.set

\* C7: after destroy() no retry timer scheduled before it is outstanding,
\* and no callback of such a timer runs.
C7_DestroyCancelsRetry ==
  /\ \A i \in DOMAIN timers : ~timers[i].cut
  /\ hist.op # "retryCut"

\* C8: no recomputation writes the image or the scale to the feImage and
\* feDisplacementMap of a filter that destroy() removed.
C8_NoWriteAfterDestroy == hist.runs >= 1 => ~hist.run.stale

\* C9: a mousemove or mouseleave calls updateShader exactly when mouseUsed
\* was set, and with a warp function that never reads the pointer it makes
\* no recomputation run.
C9_PointerGating ==
  hist.op \in {"mousemove", "mouseleave"} =>
    /\ hist.asked <=> hist.used0
    /\ config.fragment \in {"default", "identity"} => hist.runs = 0

\* C10: a recomputation whose every displacement is zero leaves an image
\* with R and G of 127 or 128, B of 0 and A of 255 in every sample.
C10_ZeroDisplacement ==
  (/\ hist.runs >= 1
   /\ \A j \in DOMAIN rawValues.values : rawValues.values[j] = 0) =>
    \A k \in 0 .. (Len(imageData.data) \div 4) - 1 :
      /\ imageData.data[4 * k + 1] \in {127, 128}
      /\ imageData.data[4 * k + 2] \in {127, 128}
      /\ imageData.data[4 * k + 3] = 0
      /\ imageData.data[4 * k + 4] = 255

\* The largest |dx| or |dy| the latest recomputation measured, and the byte
\* it stored for raw value j (R for a dx, G for a dy).
MaxMagnitude ==
  LET mags == {0} \cup {Abs(rawValues.values[j]) : j \in DOMAIN rawValues.values}
  IN CHOOSE a \in mags : \A b \in mags : b <= a

ByteOf(j) == imageData.data[4 * ((j - 1) \div 2) + 1 + ((j - 1) % 2)]

\* C11: a component whose normalised value raw / (maxScale / 2) + 0.5 is
\* above 1 is stored as 255 and one below 0 as 0, never as the value
\* modulo 256.
C11_SaturatingEncode ==
  (hist.runs >= 1 /\ MaxMagnitude > 0) =>
    \A j \in DOMAIN rawValues.values :
      /\ 4 * rawValues.values[j] > MaxMagnitude => ByteOf(j) = 255
      /\ 4 * rawValues.values[j] < 0 - MaxMagnitude => ByteOf(j) = 0

\* A recomputation with a component above 1 and one below 0, and a value
\* times 255 that is 256 or more.
C11_Witness ==
  /\ hist.runs >= 1
  /\ MaxMagnitude > 0
  /\ \E j \in DOMAIN rawValues.values :
       rawValues.values[j] = MaxMagnitude /\ ByteOf(j) = 255
  /\ \E j \in DOMAIN rawValues.values :
       4 * rawValues.values[j] < 0 - MaxMagnitude /\ ByteOf(j) = 0

C13_Step ==
  (/\ hist.op = "updateEffects" /\ hist.runs = 1
   /\ hist'.op = "updateEffects" /\ hist'.runs = 1
   /\ config' = config /\ mouse' = mouse) =>
    /\ href' = href
    /\ scale' = scale
    /\ imageData' = imageData
    /\ rawValues' = rawValues

C13_ForcedUpdateDeterministic == [][C13_Step]_vars

\* A forced update at the very time of the recomputation before it, no
\* call throttled in between, with a displacement that is not zero.
C13_Witness ==
  /\ hist.op = "updateEffects"
  /\ hist.runs = 1
  /\ hist.run.gap = 0
  /\ hist.run.coalesced = 0
  /\ MaxMagnitude > 0
  /\ href.set

\* The recomputation of the current state with the warp function that the
\* configured one amplifies.
Unamplified ==
  performShaderUpdate(
    [State EXCEPT !.config.fragment = Amplified[config.fragment]], "forced")

MaxOf(values) ==
  LET mags == {0} \cup {Abs(values[j]) : j \in DOMAIN values}
  IN CHOOSE a \in mags : \A b \in mags : b <= a

C17_DegenerateFailsFast ==
  (/\ hist.op \in {"new", "setSize", "updateConfig"}
   /\ (config.size.width <= 0 \/ config.size.height <= 0)) =>
    /\ hist.threw
    /\ hist.runs = 0

\* C18: smoothStep(e, e, x) is a finite number between 0 and 1 for every e
\* and x.
C18_DegenerateSmoothStep ==
  (probe.fn = "smoothStep" /\ probe.a = probe.b) =>
    /\ probe.result.k = "fin"
    /\ probe.result.n >= 0
    /\ probe.result.n <= probe.result.d

\* The WASM demo: the page and its worker exchange messages; nothing else
\* moves.
Instance ==
  <<elapsed, timers, config, container, svg, canvas, context, feImage,
    feDisplacementMap, mouse, mouseUsed, pendingShaderUpdate, imageData,
    rawValues, href, scale, place, drag, dom, hist, probe>>

InitializeWasm ==
  /\ wasm.worker = "null"
  /\ wasm' = initializeWasm(wasm)
  /\ UNCHANGED Instance

WorkerScript ==
  /\ wasm.worker = "new"
  /\ wasm' = workerScript(wasm)
  /\ UNCHANGED Instance

InitWasmEnd ==
  /\ wasm.loading >= 1
  /\ \E success \in BOOLEAN : wasm' = initWasmEnd(wasm, success)
  /\ UNCHANGED Instance

WorkerOnmessage ==
  /\ wasm.worker = "running"
  /\ wasm.toWorker # <<>>
  /\ wasm' = workerOnmessage([wasm EXCEPT !.toWorker = Tail(wasm.toWorker)],
                              Head(wasm.toWorker))
  /\ UNCHANGED Instance

PageOnmessage ==
  /\ wasm.toMain # <<>>
  /\ wasm' = pageOnmessage([wasm EXCEPT !.toMain = Tail(wasm.toMain)],
                            Head(wasm.toMain))
  /\ UNCHANGED Instance

Animate ==
  /\ wasm.worker # "null"
  /\ wasm.wasmReady
  /\ wasm.frames < MaxFrames
  /\ wasm' = animate(wasm)
  /\ UNCHANGED Instance

InitWasm == InitWith({<<>>})

NextWasm ==
  \/ InitializeWasm
  \/ WorkerScript
  \/ InitWasmEnd
  \/ WorkerOnmessage
  \/ PageOnmessage
  \/ Animate

SpecWasm == InitWasm /\ [][NextWasm]_vars

\* constrainPosition alone, for windows that have room for the element and
\* windows that have not.
ConConfigs ==
  {[constrainToViewport |-> b, size |-> z, offset |-> o] :
     b \in BOOLEAN, z \in Sizes, o \in {0, 10}}

ConViewports ==
  {[innerWidth |-> w, innerHeight |-> h] : w \in {5, innerWidth}, h \in {5, innerHeight}}

ConCoords == {0 - 5, 0, 10, 13, 40}

InitCon == InitWith(ConConfigs)

NextCon ==
  \/ Resize(ConViewports)
  \/ ConstrainCall(ConCoords)

SpecCon == InitCon /\ [][NextCon]_vars

\* The elements of the instance and of a second one in the document; the
\* clock stands still.
DomConfigs == {[position |-> [x |-> 12, y |-> 12]]}

InitDom == InitWith(DomConfigs)

NextDom ==
  \/ Init_
  \/ AppendTo
  \/ Destroy
  \/ UpdateConfig({<<>>})
  \/ NewDraggable({<<>>})
  \/ DragDestroy
  \/ OtherInit
  \/ OtherAppendTo
  \/ OtherDestroy

SpecDom == InitDom /\ [][NextDom]_vars

\* The position of the element across setPosition, window resizes and
\* updateConfig with and without a position; the clock stands still.
PosUpdates ==
  {<<>>, [size |-> [width |-> 1]], [position |-> [x |-> 11]],
   [effects |-> [displacementScale |-> 2]]}

PosPoints == {[x |-> 11, y |-> 11], [x |-> 40, y |-> 40]}

NextPos ==
  \/ Init_
  \/ AppendTo
  \/ UpdateConfig(PosUpdates)
  \/ SetPosition(PosPoints)
  \/ Resize(ConViewports)

SpecPos == InitDom /\ [][NextPos]_vars

\* C19: for every sequence of mousedown, mousemove, mouseup, touchstart,
\* touchmove and touchend events on a draggable that was not destroyed, the
\* callbacks fire in the pattern (onDragStart, onDrag*, onDragEnd)*: an
\* onDragStart fires only when no drag is open, an onDrag or onDragEnd only
\* when one is, and after a mouseup or touchend isDragginActive() is false.
\* The code violates it: startDrag does not look at isDragging, so a second
\* mousedown (or a touchstart) during a drag calls onDragStart again.
C19_DragProtocol ==
  (hist.op \in DragEvents /\ ~drag.destroyed) =>
    /\ \A i \in 1 .. Len(drag.fired) :
         /\ drag.fired[i] = "onDragStart" => drag.before.open = 0
         /\ drag.fired[i] \in {"onDrag", "onDragEnd"} => drag.before.open >= 1
    /\ hist.op \in {"mouseup", "touchend"} => ~isDragginActive(State)

\* C20: once LiquidGlassDraggable.destroy() has returned, whether or not a
\* drag was in progress, no mouse or touch event changes the target's
\* position or invokes onDragStart, onDrag or onDragEnd.  The code violates
\* it: the listeners stay on the document, and a drag that was in progress
\* goes on moving the target and calling onDrag.
C20_DestroyDisablesDrag ==
  (hist.op \in DragEvents /\ drag.before.destroyed) =>
    /\ drag.fired = <<>>
    /\ ~drag.moved
    /\ getPosition(State) = drag.before.position

\* The bounds constrainPosition computes for the instance in the window.
MinX == config.offset

MaxX == dom.innerWidth - config.size.width - config.offset

MinY == config.offset

MaxY == dom.innerHeight - config.size.height - config.offset

\* C21 as stated: with constrainToViewport enabled the result of
\* constrainPosition lies within offset and viewport - size - offset in both
\* dimensions, for every input and every viewport size; with it disabled the
\* input is returned unchanged; applying it twice gives the result of
\* applying it once.
C21_ConstrainWithinViewport ==
  hist.op = "constrainPosition" =>
    /\ config.constrainToViewport =>
         /\ MinX <= probe.result.x /\ probe.result.x <= MaxX
         /\ MinY <= probe.result.y /\ probe.result.y <= MaxY
    /\ ~config.constrainToViewport => probe.result = [x |-> probe.x, y |-> probe.y]
    /\ probe.again = probe.result

\* C21 amended: the result lies within the bounds in each dimension where
\* the window has room for the element (offset <= viewport - size -
\* offset); where it has not, the coordinate is offset.
C21_ConstrainWhereRoom ==
  hist.op = "constrainPosition" =>
    /\ config.constrainToViewport =>
         /\ IF MinX <= MaxX
            THEN MinX <= probe.result.x /\ probe.result.x <= MaxX
            ELSE probe.result.x = MinX
         /\ IF MinY <= MaxY
            THEN MinY <= probe.result.y /\ probe.result.y <= MaxY
            ELSE probe.result.y = MinY
    /\ ~config.constrainToViewport => probe.result = [x |-> probe.x, y |-> probe.y]
    /\ probe.again = probe.result

\* C21 witness: constrainPosition moved a point outside the bounds into
\* them, in a window with room for the element.
C21_Witness ==
  /\ hist.op = "constrainPosition"
  /\ config.constrainToViewport
  /\ MinX <= MaxX /\ MinY <= MaxY
  /\ probe.x > MaxX /\ probe.y < MinY
  /\ probe.result = [x |-> MaxX, y |-> MinY]

\* C22: the draggable's own constrainToViewport option decides, whatever
\* the target's configuration: with true, after every drag move the element
\* lies within the viewport bounds; with false it is placed at
\* dragStartPosition + pointerDelta; in both cases onDrag is passed the
\* position at which the element was placed.  The code violates it:
\* updateDrag constrains through target.constrainPosition, which does
\* nothing when the target's option is off, and target.setPosition
\* constrains again when the target's option is on.
C22_DraggableOptionDecides ==
  (hist.op \in {"dragmousemove", "touchmove"} /\ drag.moved /\ ~drag.before.destroyed) =>
    /\ drag.config.constrainToViewport =>
         /\ MinX <= place.x /\ place.x <= MaxX
         /\ MinY <= place.y /\ place.y <= MaxY
    /\ ~drag.config.constrainToViewport => place = drag.wanted
    /\ drag.passed = place

\* C23: a forced update (updateEffects) that runs while a deferred retry is
\* pending recomputes at once, from the current inputs; and when that retry
\* fires, it recomputes no earlier than one throttle interval after the
\* forced update, and from the inputs of the moment it fires, which are no
\* older than those the forced update used.
C23_ForcedDuringPendingRetry ==
  /\ (hist.op = "updateEffects" /\ hist.pending0 /\ ElementsReady(State)) =>
       /\ hist.runs = 1
       /\ hist.run.path = "forced"
       /\ hist.inputs = Current
       /\ href.set /\ href.data = imageData.data
  /\ (hist.op \in {"retry", "retryCut"} /\ hist.overtaken0 /\ hist.runs >= 1) =>
       /\ hist.runs = 1
       /\ hist.run.gap >= ThrottleTicks
       /\ hist.inputs = Current

\* C23 witness: the retry that was pending during a forced update fired a
\* full interval after it and recomputed.
C23_Witness ==
  /\ hist.op = "retry"
  /\ hist.overtaken0
  /\ hist.runs = 1
  /\ hist.run.gap >= ThrottleTicks

\* C24: whenever no pointer is over the surface (from construction until
\* the first mousemove, and after every mouseleave), the pointer state a
\* recomputation passes to the warp function is the centred default
\* (0.5, 0.5).  The code violates it: this.mouse starts as (0, 0), and is
\* centred by handleMouseLeave only.
C24_CentredWithoutPointer ==
  (hist.runs >= 1 /\ ~hist.pointer) =>
    hist.inputs.mouse = [x |-> Q \div 2, y |-> Q \div 2]

\* C25: whenever an initialised, not yet destroyed instance exists, in the
\* document or not, the injected #liquid-glass-border-styles element is in
\* the document: a destroy() removes it only when no other instance uses
\* it.  The code violates it: destroy() looks for containers in the
\* document only, so it removes the style of an instance that was
\* initialised and not appended.
C25_SharedStyleSheet ==
  (container # "null" \/ dom.other # "none") => dom.style

\* The containers this instance made that are in the document.
OwnContainers == (IF dom.attached THEN 1 ELSE 0) + dom.orphans

\* C26: after destroy() none of the listeners init() registered remains;
\* the instance owns at most one resize listener at any time and none after
\* destroy(); and after LiquidGlassDraggable.destroy() its document
\* listeners are gone.  The code violates it: both destroy() methods hand
\* removeEventListener a function that was never registered.
C26_ListenerCleanup ==
  /\ dom.resize <= 1
  /\ hist.op = "destroy" => dom.resize = 0
  /\ drag.destroyed => ~drag.listening

\* C29: at most one container and svg made by the instance are in the
\* document, and none after destroy().  The code violates it: init() on an
\* initialised instance drops the elements it named without removing them.
C29_OneElementSet ==
  /\ OwnContainers <= 1
  /\ hist.op = "destroy" => OwnContainers = 0

\* C28: updateConfig changes only what newConfig names: without a position
\* in newConfig an element shown in the document is shown at the same
\* position afterwards, and the fields newConfig does not name, nested ones
\* included, keep their values.  The code violates the first part:
\* updateConfig builds the new container at config.position, not at the
\* constrained position the old one was shown at.
C28_Step ==
  hist'.op = "updateConfig" =>
    /\ ("position" \notin DOMAIN hist'.newConfig /\ container # "null" /\ dom.attached) =>
         /\ dom'.attached
         /\ place' = place
    /\ \A k \in DOMAIN config :
         IF k \notin DOMAIN hist'.newConfig THEN config'[k] = config[k]
         ELSE k \in {"size", "position", "effects"} =>
                \A f \in DOMAIN config[k] :
                  f \notin DOMAIN hist'.newConfig[k] => config'[k][f] = config[k][f]

C28_UpdateConfigFrame == [][C28_Step]_vars

\* C27: a LiquidGlassDraggable made for an initialised instance keeps
\* working across updateConfig: afterwards a mousedown on the container the
\* instance names now starts a drag, and the mousemove that follows moves
\* the element.  The code violates it: the draggable keeps the container
\* it found in its constructor, which updateConfig removed, and the new
\* container has no mousedown listener of the draggable.
C27_DraggableSurvivesUpdate ==
  (drag.listening /\ ~drag.destroyed /\ drag.updated /\ drag.down) =>
    /\ hist.op \in {"mousedown", "containermousedown"} =>
         (drag.isDragging /\ drag.fired = <<"onDragStart">>)
    /\ hist.op = "dragmousemove" => drag.moved

\* C30: for the worker of the WASM demo, initialisation runs once, one
\* init-complete message is posted, the page sends create-state once and the
\* worker makes one GlassState; no compute-frame is posted before
\* state-created has arrived, and every compute-frame handled is answered by
\* one frame-result.  The code violates it: the worker's script calls
\* initWasm() itself and the page's init message calls it again.
C30_WorkerHandshake ==
  /\ wasm.initRuns + wasm.loading <= 1
  /\ wasm.initComplete <= 1
  /\ wasm.createSent <= 1
  /\ wasm.states <= 1
  /\ ~wasm.early
  /\ wasm.results = wasm.computed

====
